---- MODULE Spec2Model ----
(***************************************************************************)
(* Model of moviepy/video/io/gif_writers.py: write_gif (the orchestrator   *)
(* that chains up to three encoder processes with pipes and streams the    *)
(* frames of a clip into the first one) and write_gif_with_tempfiles.      *)
(*                                                                         *)
(* write_gif is modelled together with the child processes it launches     *)
(* and the OS pipes between them.  A pipe is a bounded buffer of chunks;   *)
(* a write to a full pipe blocks, a write to a pipe whose read end nobody  *)
(* holds fails (EPIPE), a read from an empty pipe whose write end nobody   *)
(* holds returns end-of-stream.  subprocess.Popen keeps in the parent the  *)
(* read end of every stdout=PIPE it creates (procN.stdout) and marks the   *)
(* pipe descriptors close-on-exec, so a child holds only the ends given    *)
(* to it as stdin and stdout.  proc1.stdin is the buffered writer that     *)
(* Popen makes of the pipe: a frame that fits in what is left of its       *)
(* buffer stays there, and the buffer reaches the pipe when a later frame  *)
(* does not fit or when the file is closed, in one write of the whole     *)
(* buffer.  Sizes are counted in pages, a page being the size of that      *)
(* buffer: bufCap frames fill the buffer of proc1.stdin (0: a frame is     *)
(* larger than the buffer, frameLen pages of which the last may be partly  *)
(* filled, and goes to the pipe page by page), any write of at most a      *)
(* page takes a page of the pipe, PipeCap pages fill a pipe, and a stage   *)
(* reads and writes a page at a time.  write(2) of more than a page puts   *)
(* what exceeds whole pages (the short end, shortEnd: at most half a page) *)
(* first, into the newest page of the pipe when that page has room for it. *)
(*                                                                         *)
(* Python values: the strings "None" and "False" stand for the objects     *)
(* None and False; a duration is the rational durNum / DurDen seconds.     *)
(***************************************************************************)
EXTENDS Integers, Sequences, FiniteSets, TLC

\* ------------------------------------------------------------------ bounds
MaxDurNum == 2
DurDen == 2
MaxFps == 2
PipeCap == 1
MaxDelayFps == 8
MaxLoop == 2
MaxBuf == 2
MaxFrame == 2

\* ------------------------------------------------------------------ inputs
Programs == {"ffmpeg", "ImageMagick", "gifsicle"}
Opts == {"None", "False", "", "OptimizeTransparency", "wrong"}
Filename == "out.gif"
\* what subprocess_call reports when it fails
TmpCauses == {"encoder failed", "[Errno 2] No such file or directory"}
SourceErrTypes == {"IOError", "ValueError"}

VARIABLES
    program,      \* argument program
    opt,          \* argument opt
    durNum,       \* clip.duration = durNum / DurDen
    fps,          \* argument fps
    progress_cb,  \* TRUE iff callable(progress_cb)
    clipMask,     \* TRUE iff clip.mask is not None
    bufCap,       \* frames of this clip that fit in the buffer of proc1.stdin
    frameLen,     \* pages of a frame of this clip, the last one whole or not
    shortEnd,     \* TRUE iff the last page of a frame is at most half full
    withmask,     \* argument / local withmask
    pc,           \* position of the call
    procs,        \* proc1, proc2, proc3: the launched stages
    pipe,         \* pipe[0]: proc1.stdin; pipe[k]: stdout pipe of stage k
    stdinClosed,  \* proc1.stdin.close() has been called
    waited,       \* number of procK.wait() calls that returned
    nframes,      \* local nframes / total (0: not assigned)
    count,        \* local count
    produced,     \* frames yielded so far by clip.iter_frames
    attempts,     \* timestamps of the frames given to proc1.stdin.write
    sink,         \* frames proc1.stdin.write returned for, in order
    buf,          \* frames in the buffer of proc1.stdin
    wire,         \* frames that reached the pipe of proc1.stdin, in order
    left,         \* pieces of the frame in hand that write has yet to place
    done,         \* pieces the current write(2) on the pipe has placed
    lastPage,     \* the newest page in the pipe of proc1.stdin
    cbCalls,      \* the calls progress_cb(count, nframes), in order
    maskQueries,  \* timestamps given to clip.mask.get_frame
    tempfiles,    \* write_gif_with_tempfiles: local list tempfiles
    disk,         \* write_gif_with_tempfiles: frame files on disk
    outcome,      \* "running", "returned" or "raised"
    err,          \* the exception that left the call
    imageioFound, \* module flag IMAGEIO_FOUND
    writer,       \* write_gif_with_image_io: the imageio writer
    dispose,      \* argument dispose
    loop,         \* argument loop
    cmd,          \* the -delay, -dispose and -loop arguments once built
    other         \* a second call of write_gif put aside, when there is one

vars == <<program, opt, durNum, fps, progress_cb, clipMask, bufCap, frameLen,
          shortEnd,
          withmask, pc,
          procs, pipe, lastPage, stdinClosed, waited, nframes, count, produced,
          attempts, sink, buf, wire, left, done, cbCalls, maskQueries,
          tempfiles, disk, outcome, err,
          imageioFound, writer, dispose, loop, cmd, other>>

inputs == <<program, opt, durNum, fps, progress_cb, clipMask, bufCap,
            frameLen, shortEnd>>
tmpVars == <<tempfiles, disk>>
auxVars == <<imageioFound, writer, dispose, loop, cmd, other>>

\* ------------------------------------------------------- pure computations
\* int(clip.duration*fps)+1
TotalFrames(dn, f) == ((dn * f) \div DurDen) + 1

\* len(np.arange(0, clip.duration, 1.0/fps)) = ceil(duration*fps)
ArangeLen(dn, f) == ((dn * f) + DurDen - 1) \div DurDen

\* clip.iter_frames(fps=fps, with_times=True): the frame source yields
\* floor(duration*fps)+1 frames, one per timestamp 0, 1/fps, 2/fps, ...
IterFramesLen(dn, f) == ((dn * f) \div DurDen) + 1

\* `if opt:`
Truthy(o) == o \notin {"None", "False", ""}

\* `opt in [False, None]`
InFalseNone(o) == o \in {"None", "False"}

\* held: the chunks a stage has read and not yet written
NoProc == [state |-> "none", stdin |-> "DEVNULL", stdout |-> "DEVNULL",
           dest |-> "", pix_fmt |-> "", held |-> 0]

PixFmt(wm) == IF wm THEN "rgba" ELSE "rgb24"

\* a compositor that never adds the mask channel
CompositeNoAlpha(i, wm) == [t |-> i, channels |-> 3]

\* np.dstack([frame, mask]) when withmask, else the frame of the clip
Composite(i, wm) == [t |-> i, channels |-> IF wm THEN 4 ELSE 3]

\* lines 298-305: the message built by the except clause of write_gif
ErrorMessage(fname, cause, prog) ==
    <<"[MoviePy] Error: creation of", fname,
      "failed because of the following error:", cause>>
    \o (IF prog = "ImageMagick"
        THEN <<"This can be due to the fact that ImageMagick is not installed on your computer, or (for Windows users) that you didn't specify the path to the ImageMagick binary in file conf.py.">>
        ELSE <<>>)

\* lines 125-132: the message built by the except clause of
\* write_gif_with_tempfiles
TmpErrorMessage(fname, cause, prog) ==
    <<"MoviePy Error: creation of", fname,
      "failed because of the following error:", cause>>
    \o (IF prog = "ImageMagick"
        THEN <<"This error can be due to the fact that ImageMagick is not installed on your computer, or (for Windows users) that you didn't specify the path to the ImageMagick binary in file conf.py.">>
        ELSE <<>>)

NoErr == [type |-> "none", msg |-> <<>>]

\* ------------------------------------------------------------- pipe ends
Running(k) == procs[k].state = "running"

\* processes holding the read end of pipe k
Readers(k) ==
    IF k = 0
    THEN IF Running(1) THEN {"proc1"} ELSE {}
    ELSE (IF procs[k].stdout = "PIPE" THEN {"write_gif"} ELSE {})
         \cup (IF k < 3 /\ Running(k + 1) THEN {"next"} ELSE {})

\* processes holding the write end of pipe k
Writers(k) ==
    IF k = 0
    THEN IF stdinClosed THEN {} ELSE {"write_gif"}
    ELSE IF Running(k) THEN {"stage"} ELSE {}

\* ------------------------------------------------------------------- Init
InitInputs ==
    /\ program \in Programs
    /\ opt \in Opts
    /\ durNum \in 1..MaxDurNum
    /\ fps \in 1..MaxFps
    /\ progress_cb \in BOOLEAN
    /\ clipMask \in BOOLEAN

InitLocals ==
    /\ procs = [k \in 1..3 |-> NoProc]
    /\ pipe = [k \in 0..2 |-> 0]
    /\ lastPage = "full"
    /\ stdinClosed = FALSE
    /\ waited = [k \in 1..3 |-> 0]
    /\ nframes = 0
    /\ count = 0
    /\ produced = <<>>
    /\ attempts = <<>>
    /\ sink = <<>>
    /\ buf = <<>>
    /\ wire = <<>>
    /\ left = 0
    /\ done = 0
    /\ cbCalls = <<>>
    /\ maskQueries = <<>>
    /\ tempfiles = <<>>
    /\ disk = {}
    /\ outcome = "running"
    /\ err = NoErr

NoCmd == [delay |-> 0, format |-> "", dispose |-> 0, loop |-> 0]

\* the import of imageio succeeded, no writer yet; the defaults of
\* dispose and loop (lines 145, 22)
InitAux ==
    /\ imageioFound = TRUE
    /\ writer = "none"
    /\ dispose = TRUE
    /\ loop = 0
    /\ cmd = NoCmd

\* a frame either fits in the buffer of proc1.stdin (a page or less) or
\* is longer than a page; the last page of a longer frame is whole, more
\* than half full, or at most half full (shortEnd)
FrameSizes ==
    {<<b, 1, FALSE>> : b \in 1..MaxBuf}
        \cup {<<0, n, e>> : n \in 2..MaxFrame, e \in BOOLEAN}

\* no second call
NoOther == [who |-> "none"]

\* write_gif is entered
InitCall ==
    /\ InitInputs
    /\ \E fs \in FrameSizes :
          bufCap = fs[1] /\ frameLen = fs[2] /\ shortEnd = fs[3]
    /\ InitAux
    /\ withmask \in BOOLEAN
    /\ InitLocals
    /\ pc = "launch1"

Init ==
    /\ InitCall
    /\ other = NoOther

\* ------------------------------------------------------ write_gif: launch
Raise(type, msg) ==
    /\ outcome' = "raised"
    /\ err' = [type |-> type, msg |-> msg]
    /\ pc' = "done"

streamVars == <<nframes, count, produced, attempts, sink, buf, wire, left,
                done, cbCalls, maskQueries>>

\* lines 214-245: withmask, cmd1, popen_params, proc1 = sp.Popen(...)
Launch1 ==
    /\ pc = "launch1"
    /\ withmask' = (withmask /\ clipMask)
    /\ procs' = [procs EXCEPT ![1] =
          [state |-> "running", stdin |-> "PIPE",
           stdout |-> IF program = "ffmpeg" THEN "DEVNULL" ELSE "PIPE",
           dest |-> IF program = "ffmpeg" THEN Filename ELSE "-",
           pix_fmt |-> PixFmt(withmask'), held |-> 0]]
    /\ pc' = IF program = "ImageMagick" THEN "launch2" ELSE "stream_init"
    /\ UNCHANGED <<inputs, auxVars, pipe, lastPage, stdinClosed, waited, streamVars, tmpVars,
                   outcome, err>>

\* sp.Popen raises OSError (the binary cannot be started)
Launch1Fail ==
    /\ pc = "launch1"
    /\ withmask' = (withmask /\ clipMask)
    /\ Raise("OSError", <<"No such file or directory">>)
    /\ UNCHANGED <<inputs, auxVars, procs, pipe, lastPage, stdinClosed, waited, streamVars,
                   tmpVars>>

\* a launch of proc2 that leaves stdin a fresh pipe to the caller
Launch2FromCaller ==
    /\ pc = "launch2"
    /\ procs' = [procs EXCEPT ![2] =
          [state |-> "running", stdin |-> "PIPE",
           stdout |-> IF InFalseNone(opt) THEN "DEVNULL" ELSE "PIPE",
           dest |-> IF InFalseNone(opt) THEN Filename ELSE "gif:-",
           pix_fmt |-> "", held |-> 0]]
    /\ pc' = IF Truthy(opt) THEN "launch3" ELSE "stream_init"
    /\ UNCHANGED <<inputs, auxVars, withmask, pipe, lastPage, stdinClosed, waited,
                   streamVars, tmpVars, outcome, err>>

\* lines 247-261: proc2 = sp.Popen(cmd2 + ...)
Launch2 ==
    /\ pc = "launch2"
    /\ procs' = [procs EXCEPT ![2] =
          [state |-> "running", stdin |-> "proc1.stdout",
           stdout |-> IF InFalseNone(opt) THEN "DEVNULL" ELSE "PIPE",
           dest |-> IF InFalseNone(opt) THEN Filename ELSE "gif:-",
           pix_fmt |-> "", held |-> 0]]
    /\ pc' = IF Truthy(opt) THEN "launch3" ELSE "stream_init"
    /\ UNCHANGED <<inputs, auxVars, withmask, pipe, lastPage, stdinClosed, waited, streamVars,
                   tmpVars, outcome, err>>

Launch2Fail ==
    /\ pc = "launch2"
    /\ Raise("OSError", <<"No such file or directory">>)
    /\ UNCHANGED <<inputs, auxVars, withmask, procs, pipe, lastPage, stdinClosed, waited,
                   streamVars, tmpVars>>

\* lines 263-272: proc3 = sp.Popen(cmd3, ...)
Launch3 ==
    /\ pc = "launch3"
    /\ procs' = [procs EXCEPT ![3] =
          [state |-> "running", stdin |-> "proc2.stdout",
           stdout |-> "DEVNULL", dest |-> Filename, pix_fmt |-> "", held |-> 0]]
    /\ pc' = "stream_init"
    /\ UNCHANGED <<inputs, auxVars, withmask, pipe, lastPage, stdinClosed, waited, streamVars,
                   tmpVars, outcome, err>>

Launch3Fail ==
    /\ pc = "launch3"
    /\ Raise("OSError", <<"No such file or directory">>)
    /\ UNCHANGED <<inputs, auxVars, withmask, procs, pipe, lastPage, stdinClosed, waited,
                   streamVars, tmpVars>>

\* --------------------------------------------------- write_gif: streaming
launchVars == <<withmask, procs>>
shutVars == <<stdinClosed, waited>>

\* a start of the loop that counts the callbacks from 0
StreamInitCountZero ==
    /\ pc = "stream_init"
    /\ nframes' = IF progress_cb THEN TotalFrames(durNum, fps) ELSE nframes
    /\ count' = IF progress_cb THEN 0 ELSE count
    /\ pc' = "stream"
    /\ UNCHANGED <<inputs, auxVars, launchVars, pipe, lastPage, shutVars, produced,
                   attempts, sink, buf, wire, left, done, cbCalls,
                   maskQueries, tmpVars, outcome, err>>

\* lines 278-282: nframes = int(clip.duration*fps)+1; count = 1
StreamInit ==
    /\ pc = "stream_init"
    /\ nframes' = IF progress_cb THEN TotalFrames(durNum, fps) ELSE nframes
    /\ count' = IF progress_cb THEN 1 ELSE count
    /\ pc' = "stream"
    /\ UNCHANGED <<inputs, auxVars, launchVars, pipe, lastPage, shutVars, produced,
                   attempts, sink, buf, wire, left, done, cbCalls,
                   maskQueries, tmpVars, outcome, err>>

FramesLeft == Len(produced) < IterFramesLen(durNum, fps)

\* the frame the next iteration of the for loop binds to (t, frame)
NextT == Len(produced)

\* lines 286-288: the mask is fetched only when withmask
MaskQueriesAfter(t) ==
    IF withmask THEN Append(maskQueries, t) ELSE maskQueries

\* the frame in hand: the last one the source yielded, composited
CurFrame == Composite(produced[Len(produced)], withmask)

\* a write call that records the frame twice
WriteFrameTwice(frame) ==
    sink' = Append(Append(sink, frame), frame)

\* line 289 returning: proc1.stdin.write has taken the frame
WriteFrame(frame) ==
    sink' = Append(sink, frame)

\* lines 292-294
Callback ==
    IF progress_cb
    THEN /\ cbCalls' = Append(cbCalls, <<count, nframes>>)
         /\ count' = count + 1
    ELSE UNCHANGED <<cbCalls, count>>

\* lines 296-307: except IOError as err: ... raise IOError(error)
ExceptIOError(cause) ==
    Raise("IOError", ErrorMessage(Filename, cause, program))

\* the frame in hand fits in what is left of the buffer of proc1.stdin
Fits == Len(buf) < bufCap

\* the buffer of proc1.stdin goes into the pipe in one write(2) of at
\* most a page, which is placed whole; it blocks while the pipe is full
Flush ==
    /\ buf # <<>>
    /\ Readers(0) # {}
    /\ pipe[0] < PipeCap
    /\ wire' = wire \o buf
    /\ pipe' = [pipe EXCEPT ![0] = @ + 1]
    /\ lastPage' = "full"

\* write(2) on the pipe begins with the short end of the frame: it goes
\* at once into the newest page of the pipe when that page holds only the
\* short end of the frame before, which leaves room for it
Joins ==
    bufCap = 0 /\ shortEnd /\ lastPage = "open" /\ Readers(0) # {}

\* lines 284-289: the source yields (t, frame), the mask is fetched when
\* withmask, and proc1.stdin.write(frame.tostring()) is entered; a frame
\* longer than the buffer is handed to write(2) on the pipe
NextFrame ==
    /\ pc = "stream"
    /\ FramesLeft
    /\ produced' = Append(produced, NextT)
    /\ maskQueries' = MaskQueriesAfter(NextT)
    /\ attempts' = Append(attempts, Composite(NextT, withmask).t)
    /\ left' = IF bufCap = 0
               THEN (IF Joins THEN frameLen - 1 ELSE frameLen)
               ELSE 0
    /\ done' = IF Joins THEN 1 ELSE 0
    /\ lastPage' = IF Joins THEN "joined" ELSE lastPage
    /\ pc' = "write"
    /\ UNCHANGED <<inputs, auxVars, launchVars, pipe, shutVars, nframes,
                   count, sink, buf, wire, cbCalls, tmpVars, outcome, err>>

\* a loop body whose write is made only when there is a callback
WriteBufferedIfReported ==
    /\ pc = "write"
    /\ Fits
    /\ IF progress_cb
       THEN /\ buf' = Append(buf, CurFrame)
            /\ WriteFrame(CurFrame)
            /\ Callback
       ELSE UNCHANGED <<buf, sink, cbCalls, count>>
    /\ pc' = "stream"
    /\ UNCHANGED <<inputs, auxVars, launchVars, pipe, lastPage, shutVars, nframes,
                   produced, attempts, wire, left, done, maskQueries,
                   tmpVars, outcome, err>>

\* lines 289-294: the frame fits in the buffer; write returns without
\* touching the pipe and the callback is called
WriteBuffered ==
    /\ pc = "write"
    /\ Fits
    /\ buf' = Append(buf, CurFrame)
    /\ WriteFrame(CurFrame)
    /\ Callback
    /\ pc' = "stream"
    /\ UNCHANGED <<inputs, auxVars, launchVars, pipe, lastPage, shutVars, nframes,
                   produced, attempts, wire, left, done, maskQueries,
                   tmpVars, outcome, err>>

\* lines 289-294: the frame does not fit in what is left of the buffer,
\* so write first puts the whole buffer into the pipe (blocking while the
\* pipe is full), then keeps the frame in the buffer; write returns and
\* the callback is called
WriteFlush ==
    /\ pc = "write"
    /\ ~Fits
    /\ bufCap > 0
    /\ Flush
    /\ buf' = <<CurFrame>>
    /\ WriteFrame(CurFrame)
    /\ Callback
    /\ pc' = "stream"
    /\ UNCHANGED <<inputs, auxVars, launchVars, shutVars, nframes, produced,
                   attempts, left, done, maskQueries, tmpVars, outcome, err>>

\* line 289: the frame is longer than the buffer, so write hands all of
\* it to write(2) on the pipe, which places a page of the frame in a page
\* of the pipe and has more to place; it blocks while the pipe is full
WriteRaw ==
    /\ pc = "write"
    /\ bufCap = 0
    /\ buf = <<>>
    /\ left > 1
    /\ Readers(0) # {}
    /\ pipe[0] < PipeCap
    /\ pipe' = [pipe EXCEPT ![0] = @ + 1]
    /\ UNCHANGED lastPage
    /\ left' = left - 1
    /\ done' = done + 1
    /\ UNCHANGED <<inputs, auxVars, launchVars, pc, shutVars, nframes, count,
                   produced, attempts, sink, buf, wire, cbCalls, maskQueries,
                   tmpVars, outcome, err>>

\* lines 289-294: write(2) places the last piece of the frame in a page
\* of the pipe: a page of the frame when it began with the short end,
\* the short end otherwise; write returns and the callback is called
WriteThrough ==
    /\ pc = "write"
    /\ bufCap = 0
    /\ buf = <<>>
    /\ left = 1
    /\ Readers(0) # {}
    /\ pipe[0] < PipeCap
    /\ pipe' = [pipe EXCEPT ![0] = @ + 1]
    /\ lastPage' = IF shortEnd /\ lastPage # "joined" THEN "open" ELSE "full"
    /\ wire' = Append(wire, CurFrame)
    /\ left' = 0
    /\ done' = 0
    /\ WriteFrame(CurFrame)
    /\ Callback
    /\ pc' = "stream"
    /\ UNCHANGED <<inputs, auxVars, launchVars, shutVars, nframes, produced,
                   attempts, buf, maskQueries, tmpVars, outcome, err>>

\* lines 289-294: the read end of the pipe is dropped while write(2) is
\* blocked with pieces of the frame placed; it returns their length, and
\* what is left of the frame, a page or less, is kept in the buffer;
\* write returns and the callback is called
WriteTail ==
    /\ pc = "write"
    /\ bufCap = 0
    /\ buf = <<>>
    /\ done > 0
    /\ left = 1
    /\ Readers(0) = {}
    /\ buf' = <<CurFrame>>
    /\ left' = 0
    /\ done' = 0
    /\ WriteFrame(CurFrame)
    /\ Callback
    /\ pc' = "stream"
    /\ UNCHANGED <<inputs, auxVars, launchVars, pipe, lastPage, shutVars, nframes,
                   produced, attempts, wire, maskQueries, tmpVars, outcome,
                   err>>

\* lines 289 and 296-307: nobody holds the read end of the pipe (EPIPE)
\* when write flushes the buffer, when write(2) has placed no piece of
\* the frame, or when the pieces it placed leave more than a page for the
\* next write(2); the IOError is caught and raised again
WriteFail ==
    /\ pc = "write"
    /\ ~Fits
    /\ Readers(0) = {}
    /\ bufCap > 0 \/ buf # <<>> \/ done = 0 \/ left > 1
    /\ ExceptIOError("[Errno 32] Broken pipe")
    /\ UNCHANGED <<inputs, auxVars, launchVars, pipe, lastPage, shutVars, nframes,
                   count, produced, attempts, sink, buf, wire, left, done,
                   cbCalls, maskQueries, tmpVars>>

\* line 284: the frame source raises instead of yielding a frame; an
\* IOError is caught by the except clause, anything else propagates
SourceRaise ==
    /\ pc = "stream"
    /\ FramesLeft
    /\ \E ty \in SourceErrTypes :
          IF ty = "IOError"
          THEN ExceptIOError("cannot read frame")
          ELSE Raise(ty, <<"cannot read frame">>)
    /\ UNCHANGED <<inputs, auxVars, launchVars, pipe, lastPage, shutVars, streamVars, tmpVars>>

\* line 284: the frame source is exhausted
StreamEnd ==
    /\ pc = "stream"
    /\ ~FramesLeft
    /\ pc' = "close"
    /\ UNCHANGED <<inputs, auxVars, launchVars, pipe, lastPage, shutVars, streamVars, tmpVars,
                   outcome, err>>

\* ---------------------------------------------------- write_gif: shutdown
Return ==
    /\ outcome' = "returned"
    /\ pc' = "done"
    /\ UNCHANGED err

\* line 310: the flush of close finds nobody holding the read end of the
\* pipe; the file is closed and BrokenPipeError leaves write_gif as it is,
\* line 310 being outside the try
CloseFail ==
    /\ pc = "close"
    /\ buf # <<>>
    /\ Readers(0) = {}
    /\ stdinClosed' = TRUE
    /\ Raise("BrokenPipeError", <<"[Errno 32] Broken pipe">>)
    /\ UNCHANGED <<inputs, auxVars, launchVars, pipe, lastPage, waited, streamVars,
                   tmpVars>>

\* what proc1.stdin.close() does with the buffer: nothing when it is
\* empty, one write of all of it otherwise
CloseFlush ==
    IF buf = <<>>
    THEN UNCHANGED <<buf, wire, pipe, lastPage>>
    ELSE Flush /\ buf' = <<>>

\* a shutdown that goes on to the waits without closing proc1.stdin
CloseStdinSkipped ==
    /\ pc = "close"
    /\ CloseFlush
    /\ pc' = "wait1"
    /\ UNCHANGED <<inputs, auxVars, launchVars, stdinClosed, waited, nframes,
                   count, produced, attempts, sink, left, done, cbCalls,
                   maskQueries, tmpVars, outcome, err>>

\* lines 308-310: proc1.stdin.close() flushes the buffer (blocking while
\* the pipe is full) and closes the file
CloseStdin ==
    /\ pc = "close"
    /\ CloseFlush
    /\ stdinClosed' = TRUE
    /\ pc' = "wait1"
    /\ UNCHANGED <<inputs, auxVars, launchVars, waited, nframes, count,
                   produced, attempts, sink, left, done, cbCalls,
                   maskQueries, tmpVars, outcome, err>>

\* line 311: proc1.wait() returns once proc1 has exited
Wait1 ==
    /\ pc = "wait1"
    /\ procs[1].state = "exited"
    /\ waited' = [waited EXCEPT ![1] = @ + 1]
    /\ IF program = "ImageMagick"
       THEN pc' = "wait2" /\ UNCHANGED <<outcome, err>>
       ELSE Return
    /\ UNCHANGED <<inputs, auxVars, launchVars, pipe, lastPage, stdinClosed, streamVars,
                   tmpVars>>

\* lines 312-313: proc2.wait()
Wait2 ==
    /\ pc = "wait2"
    /\ procs[2].state = "exited"
    /\ waited' = [waited EXCEPT ![2] = @ + 1]
    /\ IF Truthy(opt)
       THEN pc' = "wait3" /\ UNCHANGED <<outcome, err>>
       ELSE Return
    /\ UNCHANGED <<inputs, auxVars, launchVars, pipe, lastPage, stdinClosed, streamVars,
                   tmpVars>>

\* lines 314-316: proc3.wait()
Wait3 ==
    /\ pc = "wait3"
    /\ procs[3].state = "exited"
    /\ waited' = [waited EXCEPT ![3] = @ + 1]
    /\ Return
    /\ UNCHANGED <<inputs, auxVars, launchVars, pipe, lastPage, stdinClosed, streamVars,
                   tmpVars>>

\* ------------------------------------------------- the encoder processes
orchVars == <<inputs, auxVars, withmask, pc, shutVars, streamVars, tmpVars, outcome,
              err>>

Exit(k) == procs' = [procs EXCEPT ![k].state = "exited"]

\* stage k reads one chunk from its stdin; a page of the pipe that was
\* read is not written to again
StageRead(k) ==
    /\ outcome = "running"
    /\ Running(k)
    /\ procs[k].held = 0
    /\ pipe[k - 1] > 0
    /\ pipe' = [pipe EXCEPT ![k - 1] = @ - 1]
    /\ lastPage' = IF k = 1 /\ pipe[0] = 1 /\ lastPage = "open"
                   THEN "full" ELSE lastPage
    /\ procs' = [procs EXCEPT ![k].held = 1]
    /\ UNCHANGED orchVars

\* stage k writes the chunk it holds to its stdout: into the next pipe
\* when stdout is a pipe (blocking while it is full, dying of EPIPE when
\* nobody holds its read end), to the file or the null sink otherwise
StageWrite(k) ==
    /\ outcome = "running"
    /\ Running(k)
    /\ procs[k].held = 1
    /\ IF procs[k].stdout = "PIPE"
       THEN IF Readers(k) = {}
            THEN Exit(k) /\ UNCHANGED <<pipe, lastPage>>
            ELSE /\ pipe[k] < PipeCap
                 /\ pipe' = [pipe EXCEPT ![k] = @ + 1]
                 /\ procs' = [procs EXCEPT ![k].held = 0]
                 /\ UNCHANGED lastPage
       ELSE /\ procs' = [procs EXCEPT ![k].held = 0]
            /\ UNCHANGED <<pipe, lastPage>>
    /\ UNCHANGED orchVars

\* stage k reads end-of-stream (its stdin is empty and nobody holds the
\* write end) with nothing left to write, and exits
StageEOF(k) ==
    /\ outcome = "running"
    /\ Running(k)
    /\ procs[k].held = 0
    /\ pipe[k - 1] = 0
    /\ Writers(k - 1) = {}
    /\ Exit(k)
    /\ UNCHANGED <<orchVars, pipe, lastPage>>

\* stage k exits early (bad argument, encoder error, killed)
StageCrash(k) ==
    /\ outcome = "running"
    /\ Running(k)
    /\ Exit(k)
    /\ UNCHANGED <<orchVars, pipe, lastPage>>

Next ==
    \/ Launch1 \/ Launch1Fail \/ Launch2 \/ Launch2Fail
    \/ Launch3 \/ Launch3Fail
    \/ StreamInit \/ NextFrame \/ WriteBuffered \/ WriteFlush
    \/ WriteRaw \/ WriteThrough \/ WriteTail \/ WriteFail
    \/ SourceRaise \/ StreamEnd
    \/ CloseFail \/ CloseStdin \/ Wait1 \/ Wait2 \/ Wait3
    \/ \E k \in 1..3 : StageRead(k)
    \/ \E k \in 1..3 : StageWrite(k)
    \/ \E k \in 1..3 : StageEOF(k)
    \/ \E k \in 1..3 : StageCrash(k)

Spec == Init /\ [][Next]_vars

TypeOK ==
    /\ pc \in {"launch1", "launch2", "launch3", "stream_init", "stream",
               "write", "close", "wait1", "wait2", "wait3", "done",
               "t_start", "t_loop", "t_call", "t_remove",
               "io_start", "io_init", "io_loop", "d_start", "d_tmp", "d_gif"}
    /\ outcome \in {"running", "returned", "raised"}
    /\ \A k \in 0..2 : pipe[k] \in 0..PipeCap
    /\ lastPage \in {"full", "open", "joined"}
    /\ lastPage = "open" => pipe[0] > 0

\* ------------------------------------------------ write_gif_with_tempfiles
gifVars == <<withmask, procs, pipe, lastPage, stdinClosed, waited, count, produced,
             attempts, sink, buf, wire, left, done, maskQueries>>

InitTmp ==
    /\ InitInputs
    /\ bufCap = 1
    /\ frameLen = 1
    /\ shortEnd = FALSE
    /\ other = NoOther
    /\ InitAux
    /\ withmask = FALSE
    /\ InitLocals
    /\ pc = "t_start"

\* lines 69-79: tt = np.arange(0, clip.duration, 1.0/fps); tempfiles = [];
\* total = int(clip.duration*fps)+1
TmpStart ==
    /\ pc = "t_start"
    /\ nframes' = TotalFrames(durNum, fps)
    /\ pc' = "t_loop"
    /\ UNCHANGED <<inputs, auxVars, gifVars, cbCalls, tmpVars, outcome, err>>

\* lines 87-94, one iteration over enumerate(tt): frame i is saved as the
\* file number i+1, then progress_cb(i+1, total)
TmpSaveFrame ==
    /\ pc = "t_loop"
    /\ Len(tempfiles) < ArangeLen(durNum, fps)
    /\ LET i == Len(tempfiles) IN
          /\ tempfiles' = Append(tempfiles, i + 1)
          /\ disk' = disk \cup {i + 1}
          /\ cbCalls' = IF progress_cb
                        THEN Append(cbCalls, <<i + 1, nframes>>)
                        ELSE cbCalls
    /\ UNCHANGED <<inputs, auxVars, gifVars, pc, nframes, outcome, err>>

\* lines 96-117: the loop is over and cmd is built for the two known
\* programs; with any other program cmd stays unbound and line 120 raises
TmpBuildCmd ==
    /\ pc = "t_loop"
    /\ Len(tempfiles) = ArangeLen(durNum, fps)
    /\ IF program \in {"ImageMagick", "ffmpeg"}
       THEN pc' = "t_call" /\ UNCHANGED <<outcome, err>>
       ELSE Raise("UnboundLocalError", <<"cmd">>)
    /\ UNCHANGED <<inputs, auxVars, gifVars, nframes, cbCalls, tmpVars>>

\* lines 119-121: subprocess_call(cmd) succeeds
TmpCallOK ==
    /\ pc = "t_call"
    /\ pc' = "t_remove"
    /\ UNCHANGED <<inputs, auxVars, gifVars, nframes, cbCalls, tmpVars, outcome, err>>

\* lines 123-134: subprocess_call(cmd) raises IOError or OSError, and
\* IOError is raised with the message of lines 125-132
TmpCallFail ==
    /\ pc = "t_call"
    /\ \E cause \in TmpCauses :
          Raise("IOError", TmpErrorMessage(Filename, cause, program))
    /\ UNCHANGED <<inputs, auxVars, gifVars, nframes, cbCalls, tmpVars>>

\* lines 136-137: for f in tempfiles: os.remove(f)
TmpRemove ==
    /\ pc = "t_remove"
    /\ disk' = disk \ {tempfiles[j] : j \in 1..Len(tempfiles)}
    /\ Return
    /\ UNCHANGED <<inputs, auxVars, gifVars, nframes, cbCalls, tempfiles>>

NextTmp ==
    \/ TmpStart \/ TmpSaveFrame \/ TmpBuildCmd
    \/ TmpCallOK \/ TmpCallFail \/ TmpRemove

SpecTmp == InitTmp /\ [][NextTmp]_vars

\* fairness: the call and every running stage keep taking the steps they
\* can take; launches need not fail, the source need not raise and a stage
\* need not exit early
Progress ==
    \/ Launch1 \/ Launch2 \/ Launch3 \/ StreamInit \/ NextFrame
    \/ WriteBuffered \/ WriteFlush \/ WriteRaw \/ WriteThrough
    \/ WriteTail \/ WriteFail
    \/ StreamEnd \/ CloseFail \/ CloseStdin \/ Wait1 \/ Wait2 \/ Wait3

FairSpec ==
    /\ Spec
    /\ WF_vars(Progress)
    /\ \A k \in 1..3 : /\ WF_vars(StageRead(k))
                       /\ WF_vars(StageWrite(k))
                       /\ WF_vars(StageEOF(k))

\* ================================================================= claims
Range(q) == {q[j] : j \in 1..Len(q)}
Launched(k) == procs[k].state # "none"
NumLaunched == Cardinality({k \in 1..3 : Launched(k)})
LaunchFailed == outcome = "raised" /\ err.type = "OSError"
LaunchDone == pc \notin {"launch1", "launch2", "launch3"} /\ ~LaunchFailed
LeftAfterLaunch == outcome # "running" /\ LaunchDone
\* proc1.stdin.write raised for the frame in hand
WriteFailed == outcome = "raised" /\ Len(attempts) > Len(sink)

\* C1: whenever write_gif returns or raises after its stages were launched,
\* proc1.stdin has been closed and every launched stage has been waited for
\* exactly once.
C1_ShutdownOnEveryExit ==
    LeftAfterLaunch =>
        /\ stdinClosed
        /\ \A k \in 1..3 : Launched(k) => waited[k] = 1

\* C2: when the launch of stage 2 or 3 fails, every stage launched before
\* it has been terminated and waited for when the error leaves write_gif.
C2_LaunchFailureReapsEarlier ==
    LaunchFailed =>
        \A k \in 1..3 : Launched(k) => (procs[k].state = "exited"
                                         /\ waited[k] = 1)

\* C3: the number of stages launched is 1 for ffmpeg, 2 for ImageMagick
\* with opt None or False, 3 for ImageMagick with any other opt.
C3_StageCount ==
    LaunchDone =>
        /\ program = "ffmpeg" => NumLaunched = 1
        /\ (program = "ImageMagick" /\ opt \in {"None", "False"})
              => NumLaunched = 2
        /\ (program = "ImageMagick" /\ opt \notin {"None", "False"})
              => NumLaunched = 3

LastLaunched == CHOOSE k \in 1..3 :
                   Launched(k) /\ \A j \in 1..3 : Launched(j) => j <= k
StdoutName(k) == IF k = 1 THEN "proc1.stdout" ELSE "proc2.stdout"

\* C4: for every program and opt, stage i writes to a pipe iff a stage i+1
\* was launched reading that pipe, and exactly one stage, the last one,
\* is given the destination filename.
C4_PipelineWiring ==
    LaunchDone =>
        /\ \A i \in 1..3 : Launched(i) =>
              ((procs[i].stdout = "PIPE")
                 <=> (i < 3 /\ Launched(i + 1)
                       /\ procs[i + 1].stdin = StdoutName(i)))
        /\ {k \in 1..3 : Launched(k) /\ procs[k].dest = Filename}
              = {LastLaunched}

\* C5 (states): the callbacks made so far are (1, nframes), (2, nframes),
\* ... in that order, and when the call has returned there are nframes =
\* floor(duration*fps)+1 of them.
C5_Calls ==
    progress_cb =>
        /\ \A j \in 1..Len(cbCalls) : cbCalls[j] = <<j, nframes>>
        /\ outcome = "returned" =>
              /\ nframes = ((durNum * fps) \div DurDen) + 1
              /\ Len(cbCalls) = nframes

\* C5 (steps): nframes is assigned once, before the first frame is given
\* to write, and a step makes at most one callback.
C5_Step ==
    /\ nframes' # nframes =>
          /\ nframes = 0
          /\ attempts = <<>>
          /\ nframes' = ((durNum * fps) \div DurDen) + 1
    /\ Len(cbCalls') <= Len(cbCalls) + 1

\* C5: with a callback and streaming succeeding, nframes is computed once
\* before the first frame as floor(duration*fps)+1 and the callback is
\* called exactly nframes times, with (1, nframes), (2, nframes), ...,
\* (nframes, nframes) in that order.
C5_CallbackCount == [](C5_Calls) /\ [][C5_Step]_vars

C5_Witness ==
    /\ progress_cb
    /\ outcome = "returned"
    /\ Len(cbCalls) >= 3
    /\ cbCalls[Len(cbCalls)] = <<nframes, nframes>>

TmpLoopDone == pc \in {"t_call", "t_remove", "done"}

\* C6: in write_gif_with_tempfiles the number of frames saved equals
\* total = int(duration*fps)+1, so the last callback is (total, total).
C6_TempfilesTotal ==
    TmpLoopDone =>
        /\ Len(tempfiles) = nframes
        /\ progress_cb => cbCalls[Len(cbCalls)] = <<nframes, nframes>>

BrokenPipe == "[Errno 32] Broken pipe"

\* a broken pipe kept a frame that was given to proc1.stdin.write from
\* reaching stage 1; the frame it failed on is the one after the last
\* frame of wire
PipeBroke == outcome = "raised" /\ BrokenPipe \in Range(err.msg)

\* C7: when writing frame n to the entry sink fails, streaming stops at
\* once: no frame after n is given to write, no frame is given twice, the
\* callback is not called for frame n or a later one, and the call raises
\* an I/O error with the filename and the cause in its message.
C7_WriteFailureAborts ==
    PipeBroke =>
        /\ pc = "done"
        /\ err.type \in {"IOError", "BrokenPipeError"}
        /\ Filename \in Range(err.msg)
        /\ Len(attempts) = Len(wire) + 1
        /\ \A i, j \in 1..Len(attempts) : attempts[i] = attempts[j] => i = j
        /\ progress_cb => Len(cbCalls) = Len(wire)

DownstreamExitedEarly ==
    /\ outcome = "running"
    /\ pc = "stream"
    /\ FramesLeft
    /\ \E k \in 2..3 : procs[k].state = "exited"

\* C8: if stage 2 or 3 exits while frames remain to be streamed, a later
\* frame write fails and write_gif raises.
C8_DownstreamExitSurfaces ==
    DownstreamExitedEarly ~> (outcome = "raised")

InvalidOptions ==
    \/ program \notin {"ffmpeg", "ImageMagick"}
    \/ program = "ImageMagick" /\ opt = "wrong"

\* C9: with an unknown program or an unsupported optimization mode, no
\* process is ever launched and the call ends with an error.
C9_InvalidOptionsRejected ==
    InvalidOptions => /\ NumLaunched = 0
                      /\ outcome # "returned"

\* C10: the frames written to proc1.stdin are the frames the source
\* produced, in the order produced: one write per produced frame, none
\* skipped, duplicated or reordered; the frames that reached the pipe and
\* the frames still in the buffer are, in that order, the frames written.
C10_OrderPreserved ==
    /\ Len(attempts) = Len(produced)
    /\ \A j \in 1..Len(attempts) : attempts[j] = produced[j]
    /\ Len(produced) - 1 <= Len(sink) /\ Len(sink) <= Len(produced)
    /\ \A j \in 1..Len(sink) : sink[j].t = produced[j]
    /\ wire \o buf = sink
    /\ (pc # "write" /\ ~WriteFailed) =>
          Len(sink) = Len(produced)
    /\ outcome = "returned" => /\ Len(sink) = IterFramesLen(durNum, fps)
                               /\ wire = sink

C10_Witness ==
    /\ outcome = "returned"
    /\ Len(sink) >= 3
    /\ bufCap = 2
    /\ program = "ImageMagick"
    /\ Truthy(opt)

\* ------------------------------------------------- write_gif_with_image_io
ioFixed == <<inputs, dispose, loop, cmd, other, withmask, procs, pipe, lastPage, stdinClosed,
             waited, attempts, buf, wire, left, done, maskQueries, tmpVars>>

InitIO ==
    /\ InitInputs
    /\ bufCap = 1
    /\ frameLen = 1
    /\ shortEnd = FALSE
    /\ other = NoOther
    /\ imageioFound \in BOOLEAN
    /\ writer = "none"
    /\ dispose = TRUE
    /\ loop = 0
    /\ cmd = NoCmd
    /\ withmask = FALSE
    /\ InitLocals
    /\ pc = "io_start"

\* a version that opens the writer before it looks at IMAGEIO_FOUND
IoStartOpenFirst ==
    /\ pc = "io_start"
    /\ writer' = "open"
    /\ IF ~imageioFound
       THEN Raise("ImportError",
                  <<"Writing a gif with imageio requires ImageIO installed">>)
       ELSE pc' = "io_init" /\ UNCHANGED <<outcome, err>>
    /\ UNCHANGED <<ioFixed, imageioFound, nframes, count, produced, sink,
                   cbCalls>>

\* lines 341-361: the ImportError when imageio is missing, else
\* writer = imageio.save(filename, ...)
IoStart ==
    /\ pc = "io_start"
    /\ IF ~imageioFound
       THEN /\ Raise("ImportError",
                  <<"Writing a gif with imageio requires ImageIO installed">>)
            /\ UNCHANGED writer
       ELSE /\ writer' = "open"
            /\ pc' = "io_init"
            /\ UNCHANGED <<outcome, err>>
    /\ UNCHANGED <<ioFixed, imageioFound, nframes, count, produced, sink,
                   cbCalls>>

\* lines 363-366: nframes = int(clip.duration*fps)+1; count = 1
IoInit ==
    /\ pc = "io_init"
    /\ nframes' = IF progress_cb THEN TotalFrames(durNum, fps) ELSE nframes
    /\ count' = IF progress_cb THEN 1 ELSE count
    /\ pc' = "io_loop"
    /\ UNCHANGED <<ioFixed, imageioFound, writer, produced, sink, cbCalls,
                   outcome, err>>

\* lines 368-376, one iteration: writer.append_data(frame), then the
\* callback
IoAppend ==
    /\ pc = "io_loop"
    /\ FramesLeft
    /\ produced' = Append(produced, NextT)
    /\ sink' = Append(sink, Composite(NextT, FALSE))
    /\ Callback
    /\ UNCHANGED <<ioFixed, imageioFound, writer, pc, nframes, outcome, err>>

\* line 368: the frame source raises; nothing catches it
IoSourceRaise ==
    /\ pc = "io_loop"
    /\ FramesLeft
    /\ \E ty \in SourceErrTypes : Raise(ty, <<"cannot read frame">>)
    /\ UNCHANGED <<ioFixed, imageioFound, writer, nframes, count, produced,
                   sink, cbCalls>>

\* line 368: the frame source is exhausted and the function returns
IoEnd ==
    /\ pc = "io_loop"
    /\ ~FramesLeft
    /\ Return
    /\ UNCHANGED <<ioFixed, imageioFound, writer, nframes, count, produced,
                   sink, cbCalls>>

NextIO == IoStart \/ IoInit \/ IoAppend \/ IoSourceRaise \/ IoEnd

SpecIO == InitIO /\ [][NextIO]_vars

\* C11: when imageio is unavailable write_gif_with_image_io raises
\* ImportError as its first step: the writer is never opened, no frame is
\* requested from the clip and the callback is never called.
C11_MissingImageioFirst ==
    ~imageioFound =>
        /\ writer = "none"
        /\ produced = <<>>
        /\ sink = <<>>
        /\ cbCalls = <<>>
        /\ pc \in {"io_start", "done"}
        /\ pc = "done" => (outcome = "raised" /\ err.type = "ImportError")

C11_Witness ==
    /\ ~imageioFound
    /\ progress_cb
    /\ outcome = "raised"
    /\ err.type = "ImportError"

\* C13 (steps): proc1.stdin is closed once, after the last frame was
\* written and before any wait; when the call goes on to the waits every
\* frame has reached the pipe; nothing is written after the close;
\* proc1 is waited for after the close, proc2 after proc1, proc3 after
\* proc2; the call returns with every launched stage waited for once.
C13_Step ==
    /\ (stdinClosed' /\ ~stdinClosed) =>
          /\ Len(sink) = IterFramesLen(durNum, fps)
          /\ \A k \in 1..3 : waited[k] = 0
          /\ outcome' = "running" => (wire' = sink /\ buf' = <<>>)
    /\ stdinClosed => /\ stdinClosed'
                      /\ sink' = sink /\ attempts' = attempts
                      /\ wire' = wire
    /\ waited'[1] # waited[1] =>
          (stdinClosed /\ waited[1] = 0 /\ waited[2] = 0 /\ waited[3] = 0)
    /\ waited'[2] # waited[2] =>
          (waited[1] = 1 /\ waited[2] = 0 /\ waited[3] = 0)
    /\ waited'[3] # waited[3] =>
          (waited[1] = 1 /\ waited[2] = 1 /\ waited[3] = 0)
    /\ (outcome' = "returned" /\ outcome = "running") =>
          \A k \in 1..3 : Launched(k) => waited'[k] = 1

\* C13: on the success path of write_gif the shutdown events happen in
\* the order close, wait 1, wait 2, wait 3, and no frame is written after
\* the close.
C13_ShutdownOrder == [][C13_Step]_vars

C13_Witness ==
    /\ outcome = "returned"
    /\ NumLaunched = 3
    /\ Len(sink) >= 2
    /\ waited = [k \in 1..3 |-> 1]

C14_Wiring ==
    /\ Launched(1) => procs[1].stdin = "PIPE"
    /\ Launched(2) => /\ Launched(1)
                      /\ procs[2].stdin = "proc1.stdout"
                      /\ procs[1].stdout = "PIPE"
    /\ Launched(3) => /\ Launched(2)
                      /\ procs[3].stdin = "proc2.stdout"
                      /\ procs[2].stdout = "PIPE"
    /\ attempts # <<>> => LaunchDone

C14_Step ==
    /\ \A k \in 1..3 : (Launched(k)' /\ ~Launched(k)) =>
          /\ attempts = <<>>
          /\ \A j \in 1..3 : Launched(j) <=> j < k
    /\ attempts # <<>> => \A k \in 1..3 : Launched(k)' <=> Launched(k)

\* C14: the stages are launched in the order 1, 2, 3, stage i > 1 reads
\* the stdout pipe of stage i-1 and never a pipe of the caller, and no
\* stage is launched once the first frame has been given to proc1.stdin.
C14_LaunchOrder == [](C14_Wiring) /\ [][C14_Step]_vars

C14_Witness ==
    /\ NumLaunched = 3
    /\ Len(sink) >= 1
    /\ procs[3].stdin = "proc2.stdout"

C17_Frames ==
    Launched(1) =>
        IF procs[1].pix_fmt = "rgba"
        THEN /\ \A j \in 1..Len(sink) : sink[j].channels = 4
             /\ \A j \in 1..Len(wire) : wire[j].channels = 4
             /\ maskQueries = attempts
        ELSE /\ procs[1].pix_fmt = "rgb24"
             /\ \A j \in 1..Len(sink) : sink[j].channels = 3
             /\ \A j \in 1..Len(wire) : wire[j].channels = 3
             /\ maskQueries = <<>>

C17_Step ==
    (Launched(1)' /\ ~Launched(1)) =>
        (procs'[1].pix_fmt = "rgba" <=> (withmask /\ clipMask))

\* C17: proc1 is told 'rgba' iff withmask was requested and the clip has a
\* mask, and then every frame written has 4 channels; otherwise it is told
\* 'rgb24', the mask is never queried and every frame has 3 channels.
C17_PixFmtMatchesFrames == [](C17_Frames) /\ [][C17_Step]_vars

C17_Witness ==
    /\ Launched(1)
    /\ procs[1].pix_fmt = "rgba"
    /\ Len(sink) >= 2
    /\ Len(wire) >= 1
    /\ maskQueries = attempts

\* C15: whenever write_gif_with_tempfiles returns or raises, none of the
\* frame files it created is left on disk.
C15_TempfilesRemoved ==
    outcome # "running" => disk = {}

\* ------------------------------------------------------ the -delay argument
\* a delay is held in hundredths of a tick (1/100 s), with the format that
\* prints it

\* a delay rounded to the nearest tick
DelayTmpRounded(f) == (200 + f) \div (2 * f)

\* line 96: delay = int(100.0/fps)
DelayTmp(f) == 100 \div f

\* lines 214 and 249: "%.02f" % (100.0/fps), in hundredths; a tie (fps 32,
\* 160, ...) goes to the even digit when 100.0/fps is exact in binary
DelayGif(f) ==
    LET q == 10000 \div f
        r == 10000 % f
    IN  IF 2 * r < f THEN q
        ELSE IF 2 * r > f THEN q + 1
        ELSE IF q % 2 = 0 THEN q ELSE q + 1

\* "-dispose", "%d" % (2 if dispose else 1)
DisposeCode(d) == IF d THEN 2 ELSE 1

InitDelay ==
    /\ program = "ImageMagick"
    /\ opt = "OptimizeTransparency"
    /\ durNum = 1
    /\ fps \in 1..MaxDelayFps
    /\ progress_cb = FALSE
    /\ clipMask = FALSE
    /\ bufCap = 1
    /\ frameLen = 1
    /\ shortEnd = FALSE
    /\ other = NoOther
    /\ imageioFound = TRUE
    /\ writer = "none"
    /\ dispose \in BOOLEAN
    /\ loop \in 0..MaxLoop
    /\ cmd = NoCmd
    /\ withmask = FALSE
    /\ InitLocals
    /\ pc = "d_start"

delayFixed == <<inputs, imageioFound, writer, dispose, loop, other, withmask, procs,
                pipe, lastPage, shutVars, streamVars, tmpVars, outcome, err>>

\* lines 96-104 of write_gif_with_tempfiles: '-delay', '%d' % delay,
\* "-dispose", ..., "-loop", "%d" % loop
BuildTmpCmd ==
    /\ pc = "d_start"
    /\ cmd' = [delay |-> 100 * DelayTmp(fps), format |-> "%d",
               dispose |-> DisposeCode(dispose), loop |-> loop]
    /\ pc' = "d_tmp"
    /\ UNCHANGED delayFixed

\* lines 214 and 249-251 of write_gif: cmd2 = [..., '-delay',
\* "%.02f" % delay, "-dispose", ..., '-loop', '%d' % loop, ...]
BuildGifCmd ==
    /\ pc = "d_start"
    /\ cmd' = [delay |-> DelayGif(fps), format |-> "%.02f",
               dispose |-> DisposeCode(dispose), loop |-> loop]
    /\ pc' = "d_gif"
    /\ UNCHANGED delayFixed

NextDelay == BuildTmpCmd \/ BuildGifCmd

SpecDelay == InitDelay /\ [][NextDelay]_vars

\* round(100/fps), halves upward
RoundedDelay(f) == (200 + f) \div (2 * f)

\* C16 as stated: in both functions the -delay argument equals
\* round(100/fps) ticks.
C16_DelayIsRound ==
    pc \in {"d_tmp", "d_gif"} => cmd.delay = 100 * RoundedDelay(fps)

\* C16 amended: write_gif_with_tempfiles passes the whole number
\* floor(100/fps); write_gif passes 100/fps to the nearest hundredth; both
\* are round(100/fps) when fps divides 100.
C16_DelayAsBuilt ==
    /\ pc = "d_tmp" =>
          /\ cmd.delay % 100 = 0
          /\ (cmd.delay \div 100) * fps <= 100
          /\ 100 < ((cmd.delay \div 100) + 1) * fps
    /\ pc = "d_gif" =>
          /\ 2 * (cmd.delay * fps - 10000) <= fps
          /\ 2 * (10000 - cmd.delay * fps) <= fps
    /\ (pc \in {"d_tmp", "d_gif"} /\ 100 % fps = 0) =>
          cmd.delay = 100 * RoundedDelay(fps)

C16_Witness ==
    /\ pc = "d_tmp"
    /\ 100 % fps # 0
    /\ cmd.delay # 100 * RoundedDelay(fps)
    /\ cmd.dispose = 1

\* ------------------------------------------- write_gif without any fault
\* every launch succeeds, the source yields all its frames, and a stage
\* exits only when it reads end-of-stream
NextCoop ==
    \/ Launch1 \/ Launch2 \/ Launch3 \/ StreamInit \/ NextFrame
    \/ WriteBuffered \/ WriteFlush \/ WriteRaw \/ WriteThrough
    \/ StreamEnd
    \/ CloseStdin \/ Wait1 \/ Wait2 \/ Wait3
    \/ \E k \in 1..3 : StageRead(k)
    \/ \E k \in 1..3 : StageWrite(k)
    \/ \E k \in 1..3 : StageEOF(k)

CoopSpec ==
    /\ Init
    /\ [][NextCoop]_vars
    /\ WF_vars(Progress)
    /\ \A k \in 1..3 : /\ WF_vars(StageRead(k))
                       /\ WF_vars(StageWrite(k))
                       /\ WF_vars(StageEOF(k))

\* C18: with program ffmpeg or ImageMagick and any opt, when every stage
\* keeps reading until end-of-stream and then exits, write_gif eventually
\* returns.
C18_Terminates ==
    (program \in {"ffmpeg", "ImageMagick"}) ~> (outcome = "returned")

\* ------------------------------------------- write_gif called a second time
\* the values of the call at hand
Snap ==
    [progress_cb |-> progress_cb, withmask |-> withmask, pc |-> pc,
     procs |-> procs, pipe |-> pipe, lastPage |-> lastPage,
     stdinClosed |-> stdinClosed,
     waited |-> waited, nframes |-> nframes, count |-> count,
     produced |-> produced, attempts |-> attempts, sink |-> sink,
     buf |-> buf, wire |-> wire, left |-> left, done |-> done,
     cbCalls |-> cbCalls, maskQueries |-> maskQueries, outcome |-> outcome,
     err |-> err]

\* what a call shows of itself apart from its callback: its position, the
\* stages and the pipes, the frames taken, written and sent, the close,
\* the waits and the outcome
LowOf(s) ==
    <<s.withmask, s.pc, s.procs, s.pipe, s.lastPage, s.stdinClosed, s.waited,
      s.produced, s.attempts, s.sink, s.buf, s.wire, s.left, s.done,
      s.maskQueries, s.outcome, s.err>>

Low == LowOf(Snap)

\* one opt for each pipeline of lines 233-272: no optimizer, an optimizer
\* without proc3, the three stages
PairOpts == {"None", "", "OptimizeTransparency"}

\* two calls of write_gif on the same clip with the same arguments, one
\* with a callback and one without, the stages behaving alike; the clip
\* has a mask, so that withmask decides whether it is used (lines 216-219)
InitPair ==
    /\ InitCall
    /\ opt \in PairOpts
    /\ clipMask
    /\ other = [who |-> "second", st |-> [Snap EXCEPT !.progress_cb = ~@]]

\* the first call takes a step of write_gif or of a stage
Lead ==
    /\ other.who = "second"
    /\ Low = LowOf(other.st)
    /\ Next

\* the second call takes the step that shows the same
Follow ==
    /\ other.who = "first"
    /\ Low # LowOf(other.st)
    /\ Next
    /\ Low' = LowOf(other.st)

\* the call at hand is put aside and the other call is taken up: the
\* second once the first has taken a step, the first once the second has
\* followed
Swap ==
    /\ other.who \in {"first", "second"}
    /\ (other.who = "second") = (Low # LowOf(other.st))
    /\ other' = [who |-> IF other.who = "second" THEN "first" ELSE "second",
                 st |-> Snap]
    /\ progress_cb' = other.st.progress_cb
    /\ withmask' = other.st.withmask
    /\ pc' = other.st.pc
    /\ procs' = other.st.procs
    /\ pipe' = other.st.pipe
    /\ lastPage' = other.st.lastPage
    /\ stdinClosed' = other.st.stdinClosed
    /\ waited' = other.st.waited
    /\ nframes' = other.st.nframes
    /\ count' = other.st.count
    /\ produced' = other.st.produced
    /\ attempts' = other.st.attempts
    /\ sink' = other.st.sink
    /\ buf' = other.st.buf
    /\ wire' = other.st.wire
    /\ left' = other.st.left
    /\ done' = other.st.done
    /\ cbCalls' = other.st.cbCalls
    /\ maskQueries' = other.st.maskQueries
    /\ outcome' = other.st.outcome
    /\ err' = other.st.err
    /\ UNCHANGED <<program, opt, durNum, fps, clipMask, bufCap, frameLen, shortEnd,
                   imageioFound, writer, dispose, loop, cmd, tmpVars>>

NextPair == Lead \/ Follow \/ Swap

SpecPair == InitPair /\ [][NextPair]_vars

\* the second call has to follow a step of the first
Behind == other.who = "first" /\ Low # LowOf(other.st)

\* C12: a callback that does not fail has no effect on the pipeline: of
\* two calls on the same clip with the same arguments, one with and one
\* without a callback, whatever step one takes (launch, frame write,
\* close, wait, return or raise, with the stages behaving alike) the other
\* can take too, with the same stages, frames written, close, waits,
\* outcome and error.
C12_CallbackHasNoEffect ==
    /\ other.who # "none" => other.st.progress_cb # progress_cb
    /\ Behind => ENABLED Follow

C12_Witness ==
    /\ other.who = "second"
    /\ Low = LowOf(other.st)
    /\ outcome = "returned"
    /\ NumLaunched = 3
    /\ Len(sink) >= 2
    /\ Len(cbCalls) + Len(other.st.cbCalls) = Len(sink)

====
